---- MODULE Spec2Model ----
(***************************************************************************)
(* Model of the GodlyKids voice cloning service (ai-service/main.py) and   *)
(* of the transformers compatibility patch (ai-service/                    *)
(* patch_transformers.py).                                                 *)
(*                                                                         *)
(* The process imports its modules, runs the startup hook that loads the   *)
(* XTTS model into the global tts_model, and then serves GET / and         *)
(* POST /generate.  The body of generate_speech is modelled statement by   *)
(* statement (pc), every statement inside its try block may raise, and     *)
(* the handlers of several requests may interleave (several workers that   *)
(* share one temporary directory).  The temporary directory is a map from  *)
(* paths to file contents.                                                 *)
(***************************************************************************)
EXTENDS Integers, Sequences, FiniteSets, TLC

\* ---------------------------------------------------------------- bounds
\* Number of request slots that can be in flight at the same time.
MaxReqs == 2

Reqs == 1..MaxReqs

\* The random part of a NamedTemporaryFile name: eight characters out of
\* [a-z0-9_]; it never contains a dot.  Two names stand for the 37^8 that
\* tempfile draws from: enough for two requests to hold different names and
\* for a freed name to be drawn again.
Names == {"k3x0a_q1", "zz81m_0p"}

\* Contents of an uploaded reference sample and of a synthesized wav, as
\* sequences of bytes.
UploadWavs == {<<82, 73>>}
ModelWavs == {<<82, 70>>, <<82, 71>>}

\* ---------------------------------------------------------------- constants
HTTP_200 == 200
HTTP_500 == 500
HTTP_503 == 503

XTTS_V2 == "tts_models/multilingual/multi-dataset/xtts_v2"

\* tts_model = None
None == [name |-> "None", device |-> "None"]

\* The modules main.py imports at its top, in source order.
MainImports ==
    <<"os", "torch", "fastapi", "fastapi.responses", "TTS.api", "uvicorn",
      "io", "tempfile", "shutil">>

\* ---------------------------------------------------------------- paths
\* A path is a sequence of string pieces; "".join(path) is the file name.
TempDir == <<"/tmp/">>

\* tempfile.NamedTemporaryFile(delete=False, suffix=".wav").name for the
\* random part n: gettempdir() + "tmp" + n + ".wav"
TempWavPath(n) == TempDir \o <<"tmp", n, ".wav">>

\* str.replace(old, new): every occurrence of old becomes new.
StrReplace(s, old, new) ==
    [i \in 1..Len(s) |-> IF s[i] = old THEN new ELSE s[i]]

\* output_path = temp_wav_path.replace(".wav", "_output.wav")
OutputPath(p) == StrReplace(p, ".wav", "_output.wav")

\* ---------------------------------------------------------------- responses
NoResp ==
    [status |-> 0, media_type |-> "", body |-> <<>>, detail |-> "",
     online |-> "", model_loaded |-> FALSE]

\* raise HTTPException(status_code=code, detail=detail)
HTTPException(code, detail) ==
    [status |-> code, media_type |-> "application/json", body |-> <<>>,
     detail |-> detail, online |-> "", model_loaded |-> FALSE]

\* StreamingResponse(audio_data, media_type=mt)
StreamingResponse(data, mt) ==
    [status |-> HTTP_200, media_type |-> mt, body |-> data, detail |-> "",
     online |-> "", model_loaded |-> FALSE]

\* {"status": "online", "model_loaded": loaded}
RootPayload(loaded) ==
    [status |-> HTTP_200, media_type |-> "application/json", body |-> <<>>,
     detail |-> "", online |-> "online", model_loaded |-> loaded]

VARIABLES
    phase,          \* "start", "imported", "serving"
    sys_modules,    \* sequence of the modules imported so far, in order
    transformers,   \* attributes the patch added to the transformers module
    cuda_available, \* torch.cuda.is_available()
    mps_available,  \* torch.backends.mps.is_available()
    device,         \* the device startup_event selected ("" before it ran)
    load_raised,    \* TRUE when TTS(...).to(device) raised in startup_event
    tts_model,      \* the global model handle
    fs,             \* temp directory: path -> [data, owner]
    pc,             \* per request: position in its handler
    route,          \* per request: "", "GET /" or "POST /generate"
    speaker_wav,    \* per request: bytes of the uploaded reference sample
    temp_wav_path,  \* per request: local of generate_speech (<<>> = unbound)
    output_path,    \* per request: local of generate_speech (<<>> = unbound)
    audio_data,     \* per request: local of generate_speech
    resp,           \* per request: the response sent
    wrote,          \* per request: what tts_to_file wrote for it
    raised,         \* per request: message of the exception raised in try
    ops             \* per request: file operations performed, in order

vars ==
    <<phase, sys_modules, transformers, cuda_available, mps_available, device,
      load_raised, tts_model, fs, pc, route, speaker_wav, temp_wav_path,
      output_path, audio_data, resp, wrote, raised, ops>>

bootVars ==
    <<phase, sys_modules, transformers, cuda_available, mps_available, device,
      load_raised, tts_model>>

reqVars ==
    <<pc, route, speaker_wav, temp_wav_path, output_path, audio_data, resp,
      wrote, raised, ops>>

\* ---------------------------------------------------------------- helpers
Contains(seq, x) == \E i \in 1..Len(seq) : seq[i] = x

Exists(p) == p \in DOMAIN fs

\* A new request is served in the lowest free slot.
FreeSlot(r) == pc[r] = "idle" /\ \A q \in Reqs : q < r => pc[q] # "idle"

\* open(p, "wb") + write: create or truncate p with the given bytes.
WriteFile(f, p, data, r) ==
    [q \in DOMAIN f \cup {p} |->
        IF q = p THEN [data |-> data, owner |-> r] ELSE f[q]]

\* os.remove(p)
RemoveFile(f, p) == [q \in DOMAIN f \ {p} |-> f[q]]

\* A proper prefix of the bytes: what a write that failed left behind.
Partial(data) == SubSeq(data, 1, Len(data) - 1)

Init ==
    /\ phase = "start"
    /\ sys_modules = <<>>
    /\ transformers = {}
    /\ cuda_available \in BOOLEAN
    /\ mps_available \in BOOLEAN
    /\ device = ""
    /\ load_raised = FALSE
    /\ tts_model = None
    /\ fs = <<>>
    /\ pc = [r \in Reqs |-> "idle"]
    /\ route = [r \in Reqs |-> ""]
    /\ speaker_wav = [r \in Reqs |-> <<>>]
    /\ temp_wav_path = [r \in Reqs |-> <<>>]
    /\ output_path = [r \in Reqs |-> <<>>]
    /\ audio_data = [r \in Reqs |-> <<>>]
    /\ resp = [r \in Reqs |-> NoResp]
    /\ wrote = [r \in Reqs |-> <<>>]
    /\ raised = [r \in Reqs |-> ""]
    /\ ops = [r \in Reqs |-> <<>>]

\* ---------------------------------------------------------------- process start
\* The top level of main.py: its imports, app = FastAPI(...), tts_model = None.
ImportMain ==
    /\ phase = "start"
    /\ phase' = "imported"
    /\ sys_modules' = sys_modules \o MainImports
    /\ tts_model' = None
    /\ UNCHANGED <<transformers, cuda_available, mps_available, device,
                   load_raised, fs>>
    /\ UNCHANGED reqVars

\* The top level of patch_transformers.py.  Nothing in main.py imports it, so
\* the step is taken, if at all, by whatever else imports the module, at any
\* point; Python runs a module's top level once.
ImportPatchTransformers ==
    /\ ~Contains(sys_modules, "patch_transformers")
    /\ sys_modules' = sys_modules \o <<"patch_transformers">>
    /\ \/ \* the import of transformers.generation.beam_search succeeds
          transformers' =
              transformers \cup {"BeamSearchScorer", "_patched_getattr", "__getattr__"}
       \/ \* it raises: the except branch only prints a warning
          transformers' = transformers
    /\ UNCHANGED <<phase, cuda_available, mps_available, device, load_raised,
                   tts_model, fs>>
    /\ UNCHANGED reqVars

\* device = "cpu"; if cuda: "cuda"; elif mps: "mps"
SelectDevice_MpsFirst(cuda, mps) ==
    IF mps THEN "mps" ELSE IF cuda THEN "cuda" ELSE "cpu"

SelectDevice(cuda, mps) ==
    IF cuda THEN "cuda" ELSE IF mps THEN "mps" ELSE "cpu"

\* startup_event with a load failure that is not absorbed.
StartupEvent_Propagates ==
    /\ phase = "imported"
    /\ device' = SelectDevice(cuda_available, mps_available)
    /\ \/ /\ tts_model' = [name |-> XTTS_V2, device |-> device']
          /\ load_raised' = FALSE
          /\ phase' = "serving"
       \/ /\ tts_model' = tts_model
          /\ load_raised' = TRUE
          /\ phase' = "crashed"
    /\ UNCHANGED <<sys_modules, transformers, cuda_available, mps_available, fs>>
    /\ UNCHANGED reqVars

\* startup_event: probe the devices, load the model onto the selected one;
\* a load exception is printed and swallowed.  The server accepts requests
\* once the hook has returned.
StartupEvent ==
    /\ phase = "imported"
    /\ device' = SelectDevice(cuda_available, mps_available)
    /\ \/ /\ tts_model' = [name |-> XTTS_V2, device |-> device']
          /\ load_raised' = FALSE
       \/ /\ tts_model' = tts_model
          /\ load_raised' = TRUE
    /\ phase' = "serving"
    /\ UNCHANGED <<sys_modules, transformers, cuda_available, mps_available, fs>>
    /\ UNCHANGED reqVars

\* ---------------------------------------------------------------- GET /
\* read_root that reports the model as loaded unconditionally.
ReadRoot_AlwaysLoaded(r) ==
    /\ phase = "serving"
    /\ FreeSlot(r)
    /\ route' = [route EXCEPT ![r] = "GET /"]
    /\ resp' = [resp EXCEPT ![r] = RootPayload(TRUE)]
    /\ pc' = [pc EXCEPT ![r] = "done"]
    /\ UNCHANGED <<speaker_wav, temp_wav_path, output_path, audio_data, wrote,
                   raised, ops, fs>>
    /\ UNCHANGED bootVars

\* read_root that loads the model again when it finds the handle unset.
ReadRoot_Reloads(r) ==
    /\ phase = "serving"
    /\ FreeSlot(r)
    /\ route' = [route EXCEPT ![r] = "GET /"]
    /\ tts_model' =
           IF tts_model = None THEN [name |-> XTTS_V2, device |-> device]
           ELSE tts_model
    /\ resp' = [resp EXCEPT ![r] = RootPayload(tts_model' # None)]
    /\ pc' = [pc EXCEPT ![r] = "done"]
    /\ UNCHANGED <<speaker_wav, temp_wav_path, output_path, audio_data, wrote,
                   raised, ops, fs>>
    /\ UNCHANGED <<phase, sys_modules, transformers, cuda_available,
                   mps_available, device, load_raised>>

\* read_root: return {"status": "online", "model_loaded": tts_model is not None}
ReadRoot(r) ==
    /\ phase = "serving"
    /\ FreeSlot(r)
    /\ route' = [route EXCEPT ![r] = "GET /"]
    /\ resp' = [resp EXCEPT ![r] = RootPayload(tts_model # None)]
    /\ pc' = [pc EXCEPT ![r] = "done"]
    /\ UNCHANGED <<speaker_wav, temp_wav_path, output_path, audio_data, wrote,
                   raised, ops, fs>>
    /\ UNCHANGED bootVars

\* ---------------------------------------------------------------- POST /generate
\* An except block that answers with a fixed text instead of str(e).
ExceptHandler_Generic(msg) == HTTPException(HTTP_500, "Internal Server Error")

\* except Exception as e: raise HTTPException(status_code=500, detail=str(e))
ExceptHandler(msg) == HTTPException(HTTP_500, msg)

\* The locals of generate_speech go with its frame when the handler is left.
DropFrame(r) ==
    /\ temp_wav_path' = [temp_wav_path EXCEPT ![r] = <<>>]
    /\ output_path' = [output_path EXCEPT ![r] = <<>>]
    /\ audio_data' = [audio_data EXCEPT ![r] = <<>>]

\* A statement inside the try block raises an exception with message msg.
Raise(r, msg) ==
    /\ raised' = [raised EXCEPT ![r] = msg]
    /\ resp' = [resp EXCEPT ![r] = ExceptHandler(msg)]
    /\ pc' = [pc EXCEPT ![r] = "done"]
    /\ DropFrame(r)

\* The statement completes and control moves on to the statement at label.
Goto(r, label) ==
    /\ pc' = [pc EXCEPT ![r] = label]
    /\ UNCHANGED <<resp, raised>>

\* generate_speech that does not look at the handle before it starts.
GenerateSpeech_NoCheck(r) ==
    /\ phase = "serving"
    /\ FreeSlot(r)
    /\ route' = [route EXCEPT ![r] = "POST /generate"]
    /\ \E wav \in UploadWavs : speaker_wav' = [speaker_wav EXCEPT ![r] = wav]
    /\ Goto(r, "save")
    /\ UNCHANGED <<temp_wav_path, output_path, audio_data, wrote, ops, fs>>
    /\ UNCHANGED bootVars

\* generate_speech is entered with the parsed form; if not tts_model: raise
\* HTTPException(503), outside the try block.
GenerateSpeech(r) ==
    /\ phase = "serving"
    /\ FreeSlot(r)
    /\ route' = [route EXCEPT ![r] = "POST /generate"]
    /\ \E wav \in UploadWavs : speaker_wav' = [speaker_wav EXCEPT ![r] = wav]
    /\ IF tts_model = None
       THEN /\ resp' = [resp EXCEPT ![r] =
                           HTTPException(HTTP_503, "TTS Model is not loaded")]
            /\ pc' = [pc EXCEPT ![r] = "done"]
            /\ UNCHANGED raised
       ELSE Goto(r, "save")
    /\ UNCHANGED <<temp_wav_path, output_path, audio_data, wrote, ops, fs>>
    /\ UNCHANGED bootVars

\* with tempfile.NamedTemporaryFile(delete=False, suffix=".wav") as temp_wav:
\*     shutil.copyfileobj(speaker_wav.file, temp_wav)
\*     temp_wav_path = temp_wav.name
\* output_path = temp_wav_path.replace(".wav", "_output.wav")
\* The file is created exclusively, under a name no existing file has.
SaveUpload(r) ==
    /\ pc[r] = "save"
    /\ \/ \E n \in Names :
            /\ ~Exists(TempWavPath(n))
            /\ \/ /\ fs' = WriteFile(fs, TempWavPath(n), speaker_wav[r], r)
                  /\ temp_wav_path' = [temp_wav_path EXCEPT ![r] = TempWavPath(n)]
                  /\ output_path' =
                         [output_path EXCEPT ![r] = OutputPath(TempWavPath(n))]
                  /\ UNCHANGED audio_data
                  /\ Goto(r, "tts")
               \/ \* copyfileobj raises after the file was created
                  /\ fs' = WriteFile(fs, TempWavPath(n), Partial(speaker_wav[r]), r)
                  /\ Raise(r, "copyfileobj failed")
            /\ ops' = [ops EXCEPT ![r] = Append(@, "create_input")]
       \/ \* no file could be created
          /\ Raise(r, "NamedTemporaryFile failed")
          /\ UNCHANGED <<fs, ops>>
    /\ UNCHANGED <<route, speaker_wav, wrote>>
    /\ UNCHANGED bootVars

\* tts_model.tts_to_file(text, speaker_wav=temp_wav_path, language,
\*                       file_path=output_path)
\* The model reads the reference sample and writes a wav; the audio it
\* produces is not determined by its inputs.
TtsToFile(r) ==
    /\ pc[r] = "tts"
    /\ \/ /\ tts_model # None
          /\ Exists(temp_wav_path[r])
          /\ \E w \in ModelWavs :
                /\ fs' = WriteFile(fs, output_path[r], w, r)
                /\ wrote' = [wrote EXCEPT ![r] = w]
          /\ ops' = [ops EXCEPT ![r] = Append(@, "write_output")]
          /\ Goto(r, "read")
          /\ UNCHANGED <<temp_wav_path, output_path, audio_data>>
       \/ \* the call raises after it wrote a part of the output
          /\ tts_model # None
          /\ Exists(temp_wav_path[r])
          /\ \E w \in ModelWavs : fs' = WriteFile(fs, output_path[r], Partial(w), r)
          /\ ops' = [ops EXCEPT ![r] = Append(@, "write_output")]
          /\ Raise(r, "tts_to_file failed")
          /\ UNCHANGED wrote
       \/ \* the call raises before it wrote anything
          /\ Raise(r, IF tts_model = None
                      THEN "'NoneType' object has no attribute 'tts_to_file'"
                      ELSE "tts_to_file failed")
          /\ UNCHANGED <<fs, wrote, ops>>
    /\ UNCHANGED <<route, speaker_wav>>
    /\ UNCHANGED bootVars

\* A read that returns only a part of the file.
ReadOutput_Short(r) ==
    /\ pc[r] = "read"
    /\ \/ /\ Exists(output_path[r])
          /\ audio_data' = [audio_data EXCEPT ![r] = Partial(fs[output_path[r]].data)]
          /\ ops' = [ops EXCEPT ![r] = Append(@, "read_output")]
          /\ Goto(r, "remove_input")
          /\ UNCHANGED <<temp_wav_path, output_path>>
       \/ /\ Raise(r, "open(output_path) failed")
          /\ UNCHANGED ops
    /\ UNCHANGED <<route, speaker_wav, wrote, fs>>
    /\ UNCHANGED bootVars

\* with open(output_path, "rb") as f: audio_data = io.BytesIO(f.read())
ReadOutput(r) ==
    /\ pc[r] = "read"
    /\ \/ /\ Exists(output_path[r])
          /\ audio_data' = [audio_data EXCEPT ![r] = fs[output_path[r]].data]
          /\ ops' = [ops EXCEPT ![r] = Append(@, "read_output")]
          /\ Goto(r, "remove_input")
          /\ UNCHANGED <<temp_wav_path, output_path>>
       \/ \* FileNotFoundError or another I/O error
          /\ Raise(r, "open(output_path) failed")
          /\ UNCHANGED ops
    /\ UNCHANGED <<route, speaker_wav, wrote, fs>>
    /\ UNCHANGED bootVars

\* os.remove(temp_wav_path)
RemoveInput(r) ==
    /\ pc[r] = "remove_input"
    /\ \/ /\ Exists(temp_wav_path[r])
          /\ fs' = RemoveFile(fs, temp_wav_path[r])
          /\ ops' = [ops EXCEPT ![r] = Append(@, "remove_input")]
          /\ Goto(r, "remove_output")
          /\ UNCHANGED <<temp_wav_path, output_path, audio_data>>
       \/ \* FileNotFoundError, PermissionError, ...
          /\ Raise(r, "os.remove(temp_wav_path) failed")
          /\ UNCHANGED <<fs, ops>>
    /\ UNCHANGED <<route, speaker_wav, wrote>>
    /\ UNCHANGED bootVars

\* os.remove(output_path)
\* return StreamingResponse(audio_data, media_type="audio/wav")
RemoveOutput(r) ==
    /\ pc[r] = "remove_output"
    /\ \/ /\ Exists(output_path[r])
          /\ fs' = RemoveFile(fs, output_path[r])
          /\ ops' = [ops EXCEPT ![r] = Append(@, "remove_output")]
          /\ resp' = [resp EXCEPT ![r] = StreamingResponse(audio_data[r], "audio/wav")]
          /\ pc' = [pc EXCEPT ![r] = "done"]
          /\ DropFrame(r)
          /\ UNCHANGED raised
       \/ /\ Raise(r, "os.remove(output_path) failed")
          /\ UNCHANGED <<fs, ops>>
    /\ UNCHANGED <<route, speaker_wav, wrote>>
    /\ UNCHANGED bootVars

\* The response has been sent: the slot is free for the next request.  Files
\* the request left behind stay on disk, owned by no running request
\* (owner 0).
Complete(r) ==
    /\ pc[r] = "done"
    /\ pc' = [pc EXCEPT ![r] = "idle"]
    /\ route' = [route EXCEPT ![r] = ""]
    /\ speaker_wav' = [speaker_wav EXCEPT ![r] = <<>>]
    /\ resp' = [resp EXCEPT ![r] = NoResp]
    /\ wrote' = [wrote EXCEPT ![r] = <<>>]
    /\ raised' = [raised EXCEPT ![r] = ""]
    /\ ops' = [ops EXCEPT ![r] = <<>>]
    /\ fs' = [p \in DOMAIN fs |->
                 IF fs[p].owner = r THEN [fs[p] EXCEPT !.owner = 0] ELSE fs[p]]
    /\ UNCHANGED <<temp_wav_path, output_path, audio_data>>
    /\ UNCHANGED bootVars

\* The service process as main.py starts it.
Next ==
    \/ ImportMain
    \/ StartupEvent
    \/ \E r \in Reqs : ReadRoot(r)
    \/ \E r \in Reqs : GenerateSpeech(r)
    \/ \E r \in Reqs : SaveUpload(r)
    \/ \E r \in Reqs : TtsToFile(r)
    \/ \E r \in Reqs : ReadOutput(r)
    \/ \E r \in Reqs : RemoveInput(r)
    \/ \E r \in Reqs : RemoveOutput(r)
    \/ \E r \in Reqs : Complete(r)

Spec == Init /\ [][Next]_vars

\* The same process when something else may import patch_transformers.
NextPatched == Next \/ ImportPatchTransformers

SpecPatched == Init /\ [][NextPatched]_vars

\* ---------------------------------------------------------------- properties
IndexOf(seq, x) == CHOOSE i \in 1..Len(seq) : seq[i] = x

IsGet(r) == route[r] = "GET /"

IsPost(r) == route[r] = "POST /generate"

\* The files on disk that request r created or wrote last.
OwnedFiles(r) == {p \in DOMAIN fs : fs[p].owner = r}

Loaded == tts_model # None

HappyPath ==
    <<"create_input", "write_output", "read_output", "remove_input",
      "remove_output">>

\* C1: once a POST /generate request has completed, with any outcome, no
\* temp file created for it is left on disk.
C1_NoTempFileSurvives ==
    \A r \in Reqs : (IsPost(r) /\ pc[r] = "done") => OwnedFiles(r) = {}

\* C2: while the model handle is unset, a POST /generate request that
\* reached the handler has ended with 503 and has performed no file
\* operation; the temp directory is untouched.
C2_UnsetHandleIs503 ==
    ~Loaded =>
        /\ fs = <<>>
        /\ \A r \in Reqs :
              IsPost(r) =>
                  /\ pc[r] = "done"
                  /\ resp[r].status = 503
                  /\ ops[r] = <<>>
                  /\ raised[r] = ""

C2_Witness ==
    \E r \in Reqs :
        /\ phase = "serving"
        /\ ~Loaded
        /\ IsPost(r)
        /\ resp[r].status = 503

\* C3: with the handle populated, an exception raised by any statement of
\* generate_speech ends the request with a 500 response whose detail is the
\* exception's message, and the service is still serving.
C3_ExceptionBecomes500 ==
    \A r \in Reqs :
        (IsPost(r) /\ raised[r] # "") =>
            /\ Loaded
            /\ pc[r] = "done"
            /\ resp[r].status = 500
            /\ resp[r].detail = raised[r]
            /\ resp[r].body = <<>>
            /\ phase = "serving"

C3_Witness ==
    \E r, q \in Reqs :
        /\ raised[r] = "os.remove(output_path) failed"
        /\ resp[r].status = 500
        /\ raised[q] = "copyfileobj failed"
        /\ resp[q].status = 500

\* C4: a completed POST /generate request has either answered 200 with
\* media type audio/wav and exactly the bytes the model wrote for it, after
\* create, write, read, remove input, remove output in this order, or it has
\* answered 503 or 500 with no audio.
C4_FullFileOrError ==
    \A r \in Reqs :
        (IsPost(r) /\ pc[r] = "done") =>
            \/ /\ resp[r].status = 200
               /\ resp[r].media_type = "audio/wav"
               /\ wrote[r] \in ModelWavs
               /\ resp[r].body = wrote[r]
               /\ ops[r] = HappyPath
               /\ OwnedFiles(r) = {}
            \/ /\ resp[r].status \in {500, 503}
               /\ resp[r].media_type # "audio/wav"
               /\ resp[r].body = <<>>

C4_Witness ==
    \E r, q \in Reqs :
        /\ r # q
        /\ IsPost(r) /\ pc[r] = "done" /\ resp[r].status = 200
        /\ IsPost(q) /\ pc[q] = "done" /\ resp[q].status = 200
        /\ resp[r].body # resp[q].body

\* C5: the model handle changes in one step only: the startup hook, which
\* takes it from unset to loaded; no request changes it.
C5_HandleWrittenOnceAtStartup ==
    [][tts_model' # tts_model =>
          /\ phase = "imported"
          /\ phase' = "serving"
          /\ tts_model = None
          /\ pc' = pc]_vars

C5_Witness ==
    \E r, q \in Reqs :
        /\ Loaded
        /\ IsGet(r) /\ pc[r] = "done"
        /\ IsPost(q) /\ pc[q] = "done" /\ resp[q].status = 500

\* C6: when the model load raised in the startup hook, the hook has
\* completed, the service is serving with the handle unset, every GET /
\* answers 200 with model_loaded false and every POST /generate answers 503.
C6_LoadFailureAbsorbed ==
    load_raised =>
        /\ phase = "serving"
        /\ tts_model = None
        /\ \A r \in Reqs :
              /\ IsGet(r) =>
                    /\ resp[r].status = 200
                    /\ resp[r].online = "online"
                    /\ resp[r].model_loaded = FALSE
              /\ IsPost(r) => pc[r] = "done" /\ resp[r].status = 503

C6_Witness ==
    \E r, q \in Reqs :
        /\ load_raised
        /\ IsGet(r) /\ resp[r].status = 200 /\ ~resp[r].model_loaded
        /\ IsPost(q) /\ resp[q].status = 503

\* C7: a GET / answers 200 with status "online" and model_loaded true
\* exactly when the handle is populated, all answers agree, and the step
\* that serves it changes neither the handle nor any file.
C7_RootAnswer ==
    \A r \in Reqs :
        IsGet(r) =>
            /\ pc[r] = "done"
            /\ resp[r].status = 200
            /\ resp[r].online = "online"
            /\ resp[r].model_loaded = Loaded
            /\ ops[r] = <<>>

C7_RootStep ==
    \A r \in Reqs :
        (~IsGet(r) /\ IsGet(r)') =>
            /\ tts_model' = tts_model
            /\ fs' = fs
            /\ \A q \in Reqs : IsGet(q) => resp'[r].model_loaded = resp[q].model_loaded

C7_ReadRootPure == []C7_RootAnswer /\ [][C7_RootStep]_vars

C7_Witness ==
    \E r, q \in Reqs :
        /\ r # q
        /\ IsGet(r) /\ IsGet(q)
        /\ resp[r].model_loaded /\ resp[q].model_loaded
        /\ fs # <<>>

\* C8: whenever TTS.api has been imported, patch_transformers was imported
\* before it.
C8_PatchBeforeTTS ==
    Contains(sys_modules, "TTS.api") =>
        /\ Contains(sys_modules, "patch_transformers")
        /\ IndexOf(sys_modules, "patch_transformers") < IndexOf(sys_modules, "TTS.api")

\* C9: the startup hook selects cuda when CUDA is available, else mps when
\* MPS is available, else cpu, and a loaded model is on the selected device.
C9_DevicePriority ==
    phase = "serving" =>
        /\ (cuda_available /\ mps_available) => device = "cuda"
        /\ (cuda_available /\ ~mps_available) => device = "cuda"
        /\ (~cuda_available /\ mps_available) => device = "mps"
        /\ (~cuda_available /\ ~mps_available) => device = "cpu"
        /\ Loaded => tts_model = [name |-> XTTS_V2, device |-> device]

C9_Witness ==
    /\ phase = "serving"
    /\ cuda_available /\ mps_available
    /\ Loaded /\ tts_model.device = "cuda"

\* C10: the paths of a request in flight differ from each other and from
\* the paths of every other request in flight.
InFlight(r) == temp_wav_path[r] # <<>>

====
